---- MODULE Spec2Model ----
(***************************************************************************)
(* Easy Send (src/src/lib.rs): plugin instances exchange audio through a   *)
(* process-wide registry of ring buffers.  A Send instance reserves a      *)
(* frame range with one fetch_add on the bundle's write cursor and stores  *)
(* its scaled samples; a Return instance follows the cursor a fixed number *)
(* of frames behind and loads them.                                        *)
(*                                                                         *)
(* Sample values are f32 numbers that are multiples of 1/2; the model      *)
(* writes the number h/2 as the integer h ("halves").  Products of the     *)
(* values used here are exact in f32, so exact arithmetic models them.     *)
(*                                                                         *)
(* The ring capacity (1 << 16 in the source) and the desired delay (16 in  *)
(* the source) are scaled down: RingCapLog2 and DESIRED_DELAY_SAMPLES are  *)
(* bounds of the model, not the values of the build.                       *)
(***************************************************************************)
EXTENDS Integers, Sequences, FiniteSets, TLC

\* ------------------------------------------------------------------ bounds
NumInst == 2                  \* plugin instances (one audio thread each)
RingCapLog2 == 1              \* ring capacity is 1 << RingCapLog2
DESIRED_DELAY_SAMPLES == 1    \* frames a Return starts behind the cursor
MaxFrameCount == 2            \* largest block size F the host passes
MaxWritePos == 3              \* no Send call takes a cursor past this value
MaxStepFrames == 3            \* frames sent in all, when the threads are
                              \* interleaved access by access
MaxRouteFrames == 2           \* frames sent on all keys together, when the
                              \* instances move between several keys

\* --------------------------------------------------------------- constants
MAX_CHANNELS == 64
RING_CAP_POW2 == 2 ^ RingCapLog2

Min(a, b) == IF a <= b THEN a ELSE b

Inst == 1..NumInst
Threads == {1, 2}             \* the instances whose threads are interleaved
Mode == {"Send", "Return"}
OutputMode == {"PassThrough", "Redirect"}
AmountValues == {1, 2}        \* 0.5 and 1.0, in halves
\* a block is never longer than the ring
FrameCounts == 1..Min(MaxFrameCount, RING_CAP_POW2)

\* Instance 1 has its mode parameter automated; the other instances keep the
\* default of EasySendParams, Mode::Send.
ModeValues(self) == IF self = 1 THEN Mode ELSE {"Send"}

\* amount and output are read by every call and used by a Send call only:
\* a Return call is taken with their defaults
AmountOf(mode) == IF mode = "Send" THEN AmountValues ELSE {2}
OutputOf(mode) == IF mode = "Send" THEN OutputMode ELSE {"PassThrough"}

RECURSIVE Log2Floor(_)
Log2Floor(n) == IF n <= 1 THEN 0 ELSE 1 + Log2Floor(n \div 2)

\* the bitwise AND of two naturals
RECURSIVE BitAnd(_, _)
BitAnd(a, b) ==
    IF a = 0 \/ b = 0 THEN 0
    ELSE (a % 2) * (b % 2) + 2 * BitAnd(a \div 2, b \div 2)

\* ------------------------------------------------------------- f32 samples
\* f32::to_bits of the non-negative number h/2: biased exponent in bits
\* 23..30, the 23 fraction bits below it; 0.0 is the all-zero pattern.
to_bits(h) ==
    IF h = 0 THEN 0
    ELSE LET e == Log2Floor(h)
         IN  (e - 1 + 127) * 2 ^ 23 + (h - 2 ^ e) * 2 ^ (23 - e)

\* f32::from_bits, for the patterns to_bits produces on this domain
from_bits(b) ==
    IF b = 0 THEN 0
    ELSE LET e == (b \div 2 ^ 23) - 127 + 1
             m == b % 2 ^ 23
         IN  (2 ^ 23 + m) \div 2 ^ (23 - e)

\* s * amount on f32 (both in halves; exact on this domain)
FMul(s, amount) == (s * amount) \div 2

\* the block the host hands to a call: N channels of F samples, all of them
\* whole numbers, non-zero and pairwise different
InputBlock(N, F) ==
    [c \in 1..N |-> [i \in 1..F |-> 2 * (i + F * (c - 1))]]

Silence(slices) == [c \in DOMAIN slices |-> [i \in DOMAIN slices[c] |-> 0]]

\* -------------------------------------------------------------------- Ring
Ring_new(capacity_pow2) == [i \in 0..(capacity_pow2 - 1) |-> 0]

store_at(buf, idx, sample) ==
    LET bits == to_bits(sample)
        i == BitAnd(idx, Cardinality(DOMAIN buf) - 1)
    IN  [buf EXCEPT ![i] = bits]

load_at(buf, idx) ==
    LET i == BitAnd(idx, Cardinality(DOMAIN buf) - 1)
        bits == buf[i]
    IN  from_bits(bits)

ChannelRing_new(num_physical) ==
    [write_pos |-> 0,
     rings |-> [c \in 1..num_physical |-> Ring_new(RING_CAP_POW2)]]

\* ------------------------------------------------------------------- state
VARIABLES
    GLOBAL_CHANNEL_RINGS,  \* 0 for None, else the index in maps of the shared map
    maps,                  \* every Mutex<HashMap> allocated, in order: [owner, tbl]
    bundles,               \* every ChannelRing allocated: [write_pos, rings],
                           \* named <<map, key>> after the map and key it was
                           \* created for
    read_pos,              \* per instance
    read_initialized,      \* per instance
    last_channel,          \* per instance
    last_num_channels,     \* per instance
    sent,                  \* history: per bundle, per frame index, the value
                           \* stored for each channel (Pending until stored)
    reserved,              \* history: per bundle, the <<base, F>> of each fetch_add
    call,                  \* history: the last operation the host invoked
    lag,                   \* history: per instance, write cursor minus read
                           \* cursor at the start of its latest call that
                           \* loaded a block, 0 when it has not loaded one
                           \* since it last was uninitialized or a Send
    block_size,            \* the host: the fixed block size it passes, 0 when
                           \* it varies the block size from call to call
    pc,                    \* per instance, where its audio thread is in process()
    loc                    \* per instance, the locals of the call in progress

vars == <<GLOBAL_CHANNEL_RINGS, maps, bundles, read_pos, read_initialized,
          last_channel, last_num_channels, sent, reserved, call, lag, block_size,
          pc, loc>>

Pending == -1

\* path: "noop", "send", "lead_in", "underrun", "read" for the way a process
\* call returned, "initialize" and "reset" for the hooks.  amount and
\* output_mode are recorded for a Send call, the mode that uses them;
\* changed is channel_changed and was_init is read_initialized as the call
\* found it.
NoCall ==
    [inst |-> 0, path |-> "none", mode |-> "Send", amount |-> 0,
     output_mode |-> "PassThrough", input |-> <<>>, output |-> <<>>,
     bundle |-> <<>>, changed |-> FALSE, was_init |-> FALSE]

EmptyTbl == [k \in {} |-> 0]

\* the locals of process() outside a call
IdleLoc ==
    [channel_idx |-> 0, amount |-> 0, mode |-> "Send", output_mode |-> "PassThrough",
     num_physical |-> 0, frame_count |-> 0, rings_store |-> 0, ch_ring |-> <<>>,
     base_frame |-> 0, write_pos |-> 0, phys_idx |-> 0, i |-> 0,
     input |-> <<>>, slices |-> <<>>, changed |-> FALSE, was_init |-> FALSE]

\* ---------------------------------------------------------------- registry
\* global_channel_rings(): the map is created by the first caller
global_channel_rings(glob, mps) ==
    IF glob # 0
    THEN [glob |-> glob, maps |-> mps, ret |-> glob]
    ELSE [glob |-> Len(mps) + 1,
          maps |-> Append(mps, [owner |-> 0, tbl |-> EmptyTbl]),
          ret  |-> Len(mps) + 1]

\* a locked block that inserts a new ChannelRing on every call
GetOrCreate_Always(m, tbl, heap, key) ==
    [tbl  |-> (key :> <<m, key>>) @@ tbl,
     heap |-> (<<m, key>> :> ChannelRing_new(key[2])) @@ heap,
     id   |-> <<m, key>>]

\* a locked block that looks the ChannelRing up by the channel count alone
GetOrCreate_CountOnly(m, tbl, heap, key) ==
    IF \E k \in DOMAIN tbl : k[2] = key[2]
    THEN LET k == CHOOSE x \in DOMAIN tbl : x[2] = key[2]
         IN  [tbl |-> (key :> tbl[k]) @@ tbl, heap |-> heap, id |-> tbl[k]]
    ELSE [tbl  |-> (key :> <<m, key>>) @@ tbl,
          heap |-> (<<m, key>> :> ChannelRing_new(key[2])) @@ heap,
          id   |-> <<m, key>>]

\* a locked block that rewinds the ChannelRing it finds
GetOrCreate_Rewind(m, tbl, heap, key) ==
    IF key \in DOMAIN tbl
    THEN [tbl |-> tbl, heap |-> [heap EXCEPT ![tbl[key]].write_pos = 0],
          id |-> tbl[key]]
    ELSE [tbl  |-> (key :> <<m, key>>) @@ tbl,
          heap |-> (<<m, key>> :> ChannelRing_new(key[2])) @@ heap,
          id   |-> <<m, key>>]

\* the body of the locked block: get the ChannelRing of key, or create it
GetOrCreate(m, tbl, heap, key) ==
    IF key \in DOMAIN tbl
    THEN [tbl |-> tbl, heap |-> heap, id |-> tbl[key]]
    ELSE [tbl  |-> (key :> <<m, key>>) @@ tbl,
          heap |-> (<<m, key>> :> ChannelRing_new(key[2])) @@ heap,
          id   |-> <<m, key>>]

\* ------------------------------------------------------------- Mode::Send
\* a fetch_add that steps by two blocks
fetch_add_Double(cur, n) == [old |-> cur, new |-> cur + 2 * n]

\* a fetch_add that hands out the value it leaves in the cell
fetch_add_ReturnsNew(cur, n) == [old |-> cur + n, new |-> cur + n]

\* a fetch_add that steps by one frame whatever the block size
fetch_add_OneFrame(cur, n) == [old |-> cur, new |-> cur + 1]

\* AtomicUsize::fetch_add: the value before, and the value left in the cell
fetch_add(cur, n) == [old |-> cur, new |-> cur + n]

\* the inner loop with the send level left out
RECURSIVE StoreSlice_NoAmount(_, _, _, _, _)
StoreSlice_NoAmount(buf, slice, base_frame, amount, i) ==
    IF i >= Len(slice) THEN buf
    ELSE StoreSlice_NoAmount(store_at(buf, base_frame + i, slice[i + 1]),
                             slice, base_frame, amount, i + 1)

\* the inner loop over one slice: store slice[i] * amount at base_frame + i
RECURSIVE StoreSlice(_, _, _, _, _)
StoreSlice(buf, slice, base_frame, amount, i) ==
    IF i >= Len(slice) THEN buf
    ELSE StoreSlice(store_at(buf, base_frame + i, FMul(slice[i + 1], amount)),
                    slice, base_frame, amount, i + 1)

\* the outer loop over the physical channels
StoreBlock(rings, slices, base_frame, amount) ==
    [c \in DOMAIN rings |->
        IF c \in DOMAIN slices
        THEN StoreSlice(rings[c], slices[c], base_frame, amount, 0)
        ELSE rings[c]]

\* a Send that never silences its block
SendOutput_Keep(slices, output_mode) == slices

\* a Send that leaves the scaled samples in its block
SendOutput_Scaled(slices, output_mode) ==
    IF output_mode = "Redirect" THEN Silence(slices)
    ELSE [c \in DOMAIN slices |-> [i \in DOMAIN slices[c] |-> FMul(slices[c][i], 1)]]

\* what the Send leaves in its own block
SendOutput(slices, output_mode) ==
    IF output_mode = "Redirect" THEN Silence(slices) ELSE slices

\* ----------------------------------------------------------- Mode::Return
\* the initialisation branch without the lead-in test
ReturnInit_NoLeadIn(rp, ri, write_pos) ==
    IF ri THEN [ok |-> TRUE, read_pos |-> rp, read_initialized |-> TRUE]
    ELSE [ok |-> TRUE,
          read_pos |-> IF write_pos >= DESIRED_DELAY_SAMPLES
                       THEN write_pos - DESIRED_DELAY_SAMPLES ELSE 0,
          read_initialized |-> TRUE]

\* an initialisation branch that starts tracking and ends the call there
ReturnInit_Defer(rp, ri, write_pos) ==
    IF ri THEN [ok |-> TRUE, read_pos |-> rp, read_initialized |-> TRUE]
    ELSE IF write_pos >= DESIRED_DELAY_SAMPLES
         THEN [ok |-> FALSE, read_pos |-> write_pos - DESIRED_DELAY_SAMPLES,
               read_initialized |-> TRUE]
         ELSE [ok |-> FALSE, read_pos |-> rp, read_initialized |-> FALSE]

\* an initialisation branch taken on every call
ReturnInit_EveryCall(rp, ri, write_pos) ==
    IF write_pos >= DESIRED_DELAY_SAMPLES
    THEN [ok |-> TRUE, read_pos |-> write_pos - DESIRED_DELAY_SAMPLES,
          read_initialized |-> TRUE]
    ELSE [ok |-> FALSE, read_pos |-> rp, read_initialized |-> FALSE]

\* the initialisation branch: [ok, read_pos, read_initialized]
ReturnInit(rp, ri, write_pos) ==
    IF ri THEN [ok |-> TRUE, read_pos |-> rp, read_initialized |-> TRUE]
    ELSE IF write_pos >= DESIRED_DELAY_SAMPLES
         THEN [ok |-> TRUE, read_pos |-> write_pos - DESIRED_DELAY_SAMPLES,
               read_initialized |-> TRUE]
         ELSE [ok |-> FALSE, read_pos |-> rp, read_initialized |-> FALSE]

\* write_pos.saturating_sub(read_pos)
Available(write_pos, rp) == IF write_pos >= rp THEN write_pos - rp ELSE 0

\* the read loop: slice[i] = ring.load_at(read_pos + i)
LoadBlock(rings, slices, rp, frame_count) ==
    [c \in DOMAIN slices |-> [i \in 1..frame_count |-> load_at(rings[c], rp + i - 1)]]

\* a Return arm that skips ahead to the cursor when it finds no full block
ReturnArm_SkipOnUnderrun(rp, ri, write_pos, rings, slices, frame_count) ==
    LET init == ReturnInit(rp, ri, write_pos)
    IN  IF ~init.ok
        THEN [read_pos |-> init.read_pos, read_initialized |-> init.read_initialized,
              output |-> Silence(slices), path |-> "lead_in"]
        ELSE IF Available(write_pos, init.read_pos) < frame_count
        THEN [read_pos |-> write_pos, read_initialized |-> init.read_initialized,
              output |-> Silence(slices), path |-> "underrun"]
        ELSE [read_pos |-> init.read_pos + frame_count,
              read_initialized |-> init.read_initialized,
              output |-> LoadBlock(rings, slices, init.read_pos, frame_count),
              path |-> "read"]

\* the whole Return arm, on the cursor value it loaded
ReturnArm(rp, ri, write_pos, rings, slices, frame_count) ==
    LET init == ReturnInit(rp, ri, write_pos)
    IN  IF ~init.ok
        THEN [read_pos |-> init.read_pos, read_initialized |-> init.read_initialized,
              output |-> Silence(slices), path |-> "lead_in"]
        ELSE IF Available(write_pos, init.read_pos) < frame_count
        THEN [read_pos |-> init.read_pos, read_initialized |-> init.read_initialized,
              output |-> Silence(slices), path |-> "underrun"]
        ELSE [read_pos |-> init.read_pos + frame_count,
              read_initialized |-> init.read_initialized,
              output |-> LoadBlock(rings, slices, init.read_pos, frame_count),
              path |-> "read"]

\* ----------------------------------------------------------------- process
\* the history of a bundle grows with the heap
GrowHist(hist, heap) ==
    [b \in DOMAIN heap |-> IF b \in DOMAIN hist THEN hist[b] ELSE <<>>]

\* the frames one Send call stores: input sample times the amount of the call
SentFrames(slices, amount, frame_count) ==
    [i \in 1..frame_count |-> [c \in DOMAIN slices |-> FMul(slices[c][i], amount)]]

\* a reconfiguration test that forgets the channel number
ChannelChanged_CountOnly(channel_idx, num_physical, lc, ln) == num_physical # ln

\* a reconfiguration test that forgets the channel count
ChannelChanged_ChannelOnly(channel_idx, num_physical, lc, ln) == channel_idx # lc

\* channel_changed, against the cached last_channel and last_num_channels
ChannelChanged(channel_idx, num_physical, lc, ln) ==
    channel_idx # lc \/ num_physical # ln

\* a process() that takes a block without channels like any other
NoChannels_Never(num_physical) == FALSE

\* the test for the early return: the block has no physical channels
NoChannels(num_physical) == num_physical = 0

\* EasySend::process as one step: a whole call on instance self, with the
\* parameter values and the block (num_physical channels of frame_count
\* samples) the host passes to it
Process(self, channel, amount, mode, output_mode, num_physical, frame_count) ==
    LET channel_idx == Min(channel, MAX_CHANNELS - 1)
        g == global_channel_rings(GLOBAL_CHANNEL_RINGS, maps)
        slices == InputBlock(num_physical, frame_count)
        channel_changed == ChannelChanged(channel_idx, num_physical,
                               last_channel[self], last_num_channels[self])
        ri == IF channel_changed THEN FALSE ELSE read_initialized[self]
        key == <<channel_idx, num_physical>>
        got == GetOrCreate(g.ret, g.maps[g.ret].tbl, bundles, key)
        ch_ring == got.heap[got.id]
        fa == fetch_add(ch_ring.write_pos, frame_count)
        base_frame == fa.old
        write_pos == ch_ring.write_pos
        ret == ReturnArm(read_pos[self], ri, write_pos, ch_ring.rings, slices, frame_count)
    IN  /\ pc[self] = "idle"
        /\ GLOBAL_CHANNEL_RINGS' = g.glob
        /\ UNCHANGED <<block_size, pc, loc>>
        /\ IF NoChannels(num_physical)
           THEN /\ maps' = g.maps
                /\ call' = [NoCall EXCEPT !.inst = self, !.path = "noop",
                                          !.mode = mode,
                                          !.input = slices, !.output = slices]
                /\ UNCHANGED <<bundles, read_pos, read_initialized, last_channel,
                               last_num_channels, sent, reserved, lag>>
           ELSE /\ g.maps[g.ret].owner = 0
                /\ maps' = [g.maps EXCEPT ![g.ret].tbl = got.tbl]
                /\ last_channel' = [last_channel EXCEPT ![self] = channel_idx]
                /\ last_num_channels' = [last_num_channels EXCEPT ![self] = num_physical]
                /\ IF mode = "Send"
                   THEN /\ bundles' = [got.heap EXCEPT
                               ![got.id].write_pos = fa.new,
                               ![got.id].rings =
                                   StoreBlock(ch_ring.rings, slices, base_frame, amount)]
                        /\ sent' = [GrowHist(sent, got.heap) EXCEPT ![got.id] =
                               @ \o SentFrames(slices, amount, frame_count)]
                        /\ reserved' = [GrowHist(reserved, got.heap) EXCEPT ![got.id] =
                               Append(@, <<base_frame, frame_count>>)]
                        /\ read_initialized' = [read_initialized EXCEPT ![self] = ri]
                        /\ UNCHANGED read_pos
                        /\ lag' = [lag EXCEPT ![self] = 0]
                        /\ call' = [inst |-> self, path |-> "send", mode |-> mode,
                                    amount |-> amount,
                                    output_mode |-> output_mode, input |-> slices,
                                    output |-> SendOutput(slices, output_mode),
                                    bundle |-> got.id, changed |-> channel_changed,
                                    was_init |-> read_initialized[self]]
                   ELSE /\ bundles' = got.heap
                        /\ sent' = GrowHist(sent, got.heap)
                        /\ reserved' = GrowHist(reserved, got.heap)
                        /\ read_pos' = [read_pos EXCEPT ![self] = ret.read_pos]
                        /\ read_initialized' =
                               [read_initialized EXCEPT ![self] = ret.read_initialized]
                        /\ lag' = [lag EXCEPT ![self] =
                               IF ret.path = "read" THEN write_pos - (ret.read_pos - frame_count)
                               ELSE IF ret.path = "underrun" /\ ri THEN @ ELSE 0]
                        /\ call' = [NoCall EXCEPT !.inst = self, !.path = ret.path,
                                        !.mode = mode,
                                        !.input = slices, !.output = ret.output,
                                        !.bundle = got.id,
                                        !.changed = channel_changed,
                                        !.was_init = read_initialized[self]]

\* an initialize that forgets the cached key but not the tracking state
Initialize_KeepsFlag(self) ==
    /\ pc[self] = "idle"
    /\ last_channel' = [last_channel EXCEPT ![self] = 0]
    /\ last_num_channels' = [last_num_channels EXCEPT ![self] = 0]
    /\ call' = [NoCall EXCEPT !.inst = self, !.path = "initialize"]
    /\ lag' = [lag EXCEPT ![self] = 0]
    /\ UNCHANGED <<GLOBAL_CHANNEL_RINGS, maps, bundles, read_pos, sent, reserved,
                   block_size, pc, loc, read_initialized>>

\* EasySend::initialize
Initialize(self) ==
    /\ pc[self] = "idle"
    /\ read_initialized' = [read_initialized EXCEPT ![self] = FALSE]
    /\ last_channel' = [last_channel EXCEPT ![self] = 0]
    /\ last_num_channels' = [last_num_channels EXCEPT ![self] = 0]
    /\ call' = [NoCall EXCEPT !.inst = self, !.path = "initialize"]
    /\ lag' = [lag EXCEPT ![self] = 0]
    /\ UNCHANGED <<GLOBAL_CHANNEL_RINGS, maps, bundles, read_pos, sent, reserved,
                   block_size, pc, loc>>

\* EasySend::reset
Reset(self) ==
    /\ pc[self] = "idle"
    /\ read_pos' = [read_pos EXCEPT ![self] = 0]
    /\ read_initialized' = [read_initialized EXCEPT ![self] = FALSE]
    /\ last_channel' = [last_channel EXCEPT ![self] = 0]
    /\ last_num_channels' = [last_num_channels EXCEPT ![self] = 0]
    /\ call' = [NoCall EXCEPT !.inst = self, !.path = "reset"]
    /\ lag' = [lag EXCEPT ![self] = 0]
    /\ UNCHANGED <<GLOBAL_CHANNEL_RINGS, maps, bundles, sent, reserved, block_size,
                   pc, loc>>

\* impl Default for EasySend, and the static before any call
InitProgram ==
    /\ GLOBAL_CHANNEL_RINGS = 0
    /\ maps = <<>>
    /\ bundles = EmptyTbl
    /\ read_pos = [t \in Inst |-> 0]
    /\ read_initialized = [t \in Inst |-> FALSE]
    /\ last_channel = [t \in Inst |-> 0]
    /\ last_num_channels = [t \in Inst |-> 0]
    /\ sent = EmptyTbl
    /\ reserved = EmptyTbl
    /\ call = NoCall
    /\ lag = [t \in Inst |-> 0]
    /\ pc = [t \in Inst |-> "idle"]
    /\ loc = [t \in Inst |-> IdleLoc]

\* the host varies the block size
Init == InitProgram /\ block_size = 0

\* the host passes blocks of one size
InitFixed == InitProgram /\ block_size \in FrameCounts

BlockSizes == IF block_size = 0 THEN FrameCounts ELSE {block_size}

\* the cursor of the bundle a call on (channel, num_physical) resolves to
CursorOf(channel, num_physical) ==
    LET key == <<Min(channel, MAX_CHANNELS - 1), num_physical>>
    IN  IF GLOBAL_CHANNEL_RINGS # 0 /\ key \in DOMAIN maps[GLOBAL_CHANNEL_RINGS].tbl
        THEN bundles[maps[GLOBAL_CHANNEL_RINGS].tbl[key]].write_pos
        ELSE 0

\* the cursor stays within the bound of the model
Fits(mode, channel, num_physical, frame_count, max) ==
    mode = "Send" /\ num_physical # 0
        => CursorOf(channel, num_physical) + frame_count <= max

\* One routing key: every instance selects the last channel (the value
\* above the range is clamped onto it) and the host passes stereo blocks or
\* blocks without channels.
Next ==
    \/ \E self \in Inst, channel \in {MAX_CHANNELS - 1, MAX_CHANNELS},
          num_physical \in {0, 2}, frame_count \in BlockSizes :
          \E mode \in ModeValues(self) :
          \E amount \in AmountOf(mode), output_mode \in OutputOf(mode) :
             /\ Fits(mode, channel, num_physical, frame_count, MaxWritePos)
             /\ Process(self, channel, amount, mode, output_mode, num_physical,
                        frame_count)
    \/ \E self \in Inst : Initialize(self)
    \/ \E self \in Inst : Reset(self)

Spec == Init /\ [][Next]_vars

SpecFixed == InitFixed /\ [][Next]_vars

\* the frames sent so far into the bundles of the set bs
RECURSIVE TotalWritten(_)
TotalWritten(bs) ==
    IF bs = {} THEN 0
    ELSE LET b == CHOOSE x \in bs : TRUE
         IN  bundles[b].write_pos + TotalWritten(bs \ {b})

FitsRoute(mode, num_physical, frame_count) ==
    mode = "Send" /\ num_physical # 0
        => TotalWritten(DOMAIN bundles) + frame_count <= MaxRouteFrames

\* Several routing keys: the automated instance moves between the first and
\* the last channel, as a Send and as a Return, and the host passes it mono
\* blocks, stereo blocks or blocks without channels, at full send level and
\* in PassThrough mode; the other instances are idle.
NextRoute ==
    \/ \E self \in {1}, channel \in {0, MAX_CHANNELS},
          num_physical \in {0, 1, 2}, frame_count \in BlockSizes :
          \E mode \in ModeValues(self) :
             /\ FitsRoute(mode, num_physical, frame_count)
             /\ Process(self, channel, 2, mode, "PassThrough", num_physical,
                        frame_count)
    \/ \E self \in {1} : Initialize(self)
    \/ \E self \in {1} : Reset(self)

SpecRoute == Init /\ [][NextRoute]_vars

\* ------------------------------------------- process, one access per step
\* The audio threads of the instances run process() concurrently. A step is
\* one access to memory the threads share: the read and the write of the
\* static, the lock and the locked block of the map, the fetch_add and the
\* load of a write cursor, one store and one load of a ring cell. What a
\* thread does to its own instance and block between two accesses belongs to
\* the step of the access before it.

\* the call returns: the locals go, the block is left with the caller
ProcessReturn(self, path, output, l) ==
    /\ pc' = [pc EXCEPT ![self] = "idle"]
    /\ loc' = [loc EXCEPT ![self] = IdleLoc]
    /\ call' = [inst |-> self, path |-> path, mode |-> l.mode,
                amount |-> IF l.mode = "Send" /\ path = "send" THEN l.amount ELSE 0,
                output_mode |-> IF path = "send" THEN l.output_mode ELSE "PassThrough",
                input |-> l.input, output |-> output,
                bundle |-> l.ch_ring, changed |-> l.changed, was_init |-> l.was_init]

\* lines 177-189, once rings_store is bound: the early return of a block
\* without channels, else the reconfiguration test and the cache update
AfterRegistry(self, l) ==
    IF NoChannels(l.num_physical)
    THEN /\ ProcessReturn(self, "noop", l.input, l)
         /\ UNCHANGED <<read_initialized, last_channel, last_num_channels>>
    ELSE LET changed == ChannelChanged(l.channel_idx, l.num_physical,
                            last_channel[self], last_num_channels[self])
         IN  /\ read_initialized' = [read_initialized EXCEPT ![self] =
                    IF changed THEN FALSE ELSE @]
             /\ last_channel' = [last_channel EXCEPT ![self] = l.channel_idx]
             /\ last_num_channels' =
                    [last_num_channels EXCEPT ![self] = l.num_physical]
             /\ pc' = [pc EXCEPT ![self] = "lock"]
             /\ loc' = [loc EXCEPT ![self] =
                    [l EXCEPT !.changed = changed,
                              !.was_init = read_initialized[self]]]
             /\ UNCHANGED call

\* process() is entered and global_channel_rings() reads the static: a map
\* that is there is cloned, a missing one is left to GlobalInit
ProcessEnter(self, channel, amount, mode, output_mode, num_physical, frame_count) ==
    LET l == [IdleLoc EXCEPT !.channel_idx = Min(channel, MAX_CHANNELS - 1),
                             !.amount = amount, !.mode = mode,
                             !.output_mode = output_mode,
                             !.num_physical = num_physical,
                             !.frame_count = frame_count,
                             !.input = InputBlock(num_physical, frame_count),
                             !.slices = InputBlock(num_physical, frame_count)]
    IN  /\ pc[self] = "idle"
        /\ IF GLOBAL_CHANNEL_RINGS # 0
           THEN AfterRegistry(self, [l EXCEPT !.rings_store = GLOBAL_CHANNEL_RINGS])
           ELSE /\ pc' = [pc EXCEPT ![self] = "global_init"]
                /\ loc' = [loc EXCEPT ![self] = l]
                /\ UNCHANGED <<read_initialized, last_channel, last_num_channels,
                               call>>
        /\ UNCHANGED <<GLOBAL_CHANNEL_RINGS, maps, bundles, read_pos, sent,
                       reserved, lag, block_size>>

\* global_channel_rings(), lines 57-60: the thread that read None creates a
\* map and writes it to the static, whatever the static holds by now
GlobalInit(self) ==
    LET arc == Len(maps) + 1
    IN  /\ pc[self] = "global_init"
        /\ maps' = Append(maps, [owner |-> 0, tbl |-> EmptyTbl])
        /\ GLOBAL_CHANNEL_RINGS' = arc
        /\ AfterRegistry(self, [loc[self] EXCEPT !.rings_store = arc])
        /\ UNCHANGED <<bundles, read_pos, sent, reserved, lag, block_size>>

\* rings_store.lock(): the thread waits for the mutex of its map
RegistryLock(self) ==
    LET m == loc[self].rings_store
    IN  /\ pc[self] = "lock"
        /\ maps[m].owner = 0
        /\ maps' = [maps EXCEPT ![m].owner = self]
        /\ pc' = [pc EXCEPT ![self] = "locked"]
        /\ UNCHANGED <<GLOBAL_CHANNEL_RINGS, bundles, read_pos, read_initialized,
                       last_channel, last_num_channels, sent, reserved, call, lag,
                       block_size, loc>>

\* a locked block whose guard outlives the block
RegistryResolve_KeepsGuard(self) ==
    LET l == loc[self]
        m == l.rings_store
        got == GetOrCreate(m, maps[m].tbl, bundles, <<l.channel_idx, l.num_physical>>)
    IN  /\ pc[self] = "locked"
        /\ maps' = [maps EXCEPT ![m].tbl = got.tbl]
        /\ bundles' = got.heap
        /\ sent' = GrowHist(sent, got.heap)
        /\ reserved' = GrowHist(reserved, got.heap)
        /\ pc' = [pc EXCEPT ![self] =
               IF l.mode = "Send" THEN "fetch_add" ELSE "load_write_pos"]
        /\ loc' = [loc EXCEPT ![self].ch_ring = got.id]
        /\ UNCHANGED <<GLOBAL_CHANNEL_RINGS, read_pos, read_initialized,
                       last_channel, last_num_channels, call, lag, block_size>>

\* the locked block, lines 194-210: get or create the ChannelRing of the
\* key; the guard is dropped at the end of the block
RegistryResolve(self) ==
    LET l == loc[self]
        m == l.rings_store
        got == GetOrCreate(m, maps[m].tbl, bundles, <<l.channel_idx, l.num_physical>>)
    IN  /\ pc[self] = "locked"
        /\ maps' = [maps EXCEPT ![m].tbl = got.tbl, ![m].owner = 0]
        /\ bundles' = got.heap
        /\ sent' = GrowHist(sent, got.heap)
        /\ reserved' = GrowHist(reserved, got.heap)
        /\ pc' = [pc EXCEPT ![self] =
               IF l.mode = "Send" THEN "fetch_add" ELSE "load_write_pos"]
        /\ loc' = [loc EXCEPT ![self].ch_ring = got.id]
        /\ UNCHANGED <<GLOBAL_CHANNEL_RINGS, read_pos, read_initialized,
                       last_channel, last_num_channels, call, lag, block_size>>

\* the next position of the loops over the channels and the samples, or
\* done when the block is through
NextIndex(l) ==
    IF l.i + 1 < l.frame_count
    THEN [done |-> FALSE, phys_idx |-> l.phys_idx, i |-> l.i + 1]
    ELSE IF l.phys_idx + 1 < l.num_physical
    THEN [done |-> FALSE, phys_idx |-> l.phys_idx + 1, i |-> 0]
    ELSE [done |-> TRUE, phys_idx |-> 0, i |-> 0]

\* Mode::Send, line 218: write_pos.fetch_add(frame_count)
SendReserve(self) ==
    LET l == loc[self]
        b == l.ch_ring
        fa == fetch_add(bundles[b].write_pos, l.frame_count)
    IN  /\ pc[self] = "fetch_add"
        /\ bundles' = [bundles EXCEPT ![b].write_pos = fa.new]
        /\ reserved' = [reserved EXCEPT ![b] = Append(@, <<fa.old, l.frame_count>>)]
        /\ sent' = [sent EXCEPT ![b] =
               @ \o [k \in 1..(fa.new - fa.old) |->
                        [c \in 1..l.num_physical |-> Pending]]]
        /\ pc' = [pc EXCEPT ![self] = "store"]
        /\ loc' = [loc EXCEPT ![self].base_frame = fa.old,
                              ![self].phys_idx = 0, ![self].i = 0]
        /\ UNCHANGED <<GLOBAL_CHANNEL_RINGS, maps, read_pos, read_initialized,
                       last_channel, last_num_channels, call, lag, block_size>>

\* Mode::Send, line 226: one ring.store_at(base_frame + i, slice[i] * amount);
\* after the last one the block is silenced in Redirect mode and the call
\* returns
SendStore(self) ==
    LET l == loc[self]
        b == l.ch_ring
        c == l.phys_idx + 1
        sample == FMul(l.slices[c][l.i + 1], l.amount)
        nxt == NextIndex(l)
    IN  /\ pc[self] = "store"
        /\ bundles' = [bundles EXCEPT ![b].rings[c] =
               store_at(@, l.base_frame + l.i, sample)]
        /\ sent' = [sent EXCEPT ![b] =
               IF l.base_frame + l.i + 1 \in DOMAIN @
               THEN [@ EXCEPT ![l.base_frame + l.i + 1][c] = sample] ELSE @]
        /\ IF nxt.done
           THEN /\ ProcessReturn(self, "send", SendOutput(l.slices, l.output_mode), l)
                /\ lag' = [lag EXCEPT ![self] = 0]
           ELSE /\ loc' = [loc EXCEPT ![self].phys_idx = nxt.phys_idx,
                                      ![self].i = nxt.i]
                /\ UNCHANGED <<pc, call, lag>>
        /\ UNCHANGED <<GLOBAL_CHANNEL_RINGS, maps, read_pos, read_initialized,
                       last_channel, last_num_channels, reserved, block_size>>

\* Mode::Return, line 244: write_pos.load(); then, on the value loaded, the
\* initialisation branch and the test for a full block
ReturnObserve(self) ==
    LET l == loc[self]
        write_pos == bundles[l.ch_ring].write_pos
        init == ReturnInit(read_pos[self], read_initialized[self], write_pos)
    IN  /\ pc[self] = "load_write_pos"
        /\ read_pos' = [read_pos EXCEPT ![self] = init.read_pos]
        /\ read_initialized' =
               [read_initialized EXCEPT ![self] = init.read_initialized]
        /\ IF ~init.ok
           THEN /\ ProcessReturn(self, "lead_in", Silence(l.slices), l)
                /\ lag' = [lag EXCEPT ![self] = 0]
           ELSE IF Available(write_pos, init.read_pos) < l.frame_count
           THEN /\ ProcessReturn(self, "underrun", Silence(l.slices), l)
                /\ lag' = [lag EXCEPT ![self] =
                       IF read_initialized[self] THEN @ ELSE 0]
           ELSE /\ pc' = [pc EXCEPT ![self] = "load"]
                /\ loc' = [loc EXCEPT ![self].write_pos = write_pos,
                                      ![self].phys_idx = 0, ![self].i = 0]
                /\ UNCHANGED <<call, lag>>
        /\ UNCHANGED <<GLOBAL_CHANNEL_RINGS, maps, bundles, last_channel,
                       last_num_channels, sent, reserved, block_size>>

\* Mode::Return, line 280: one slice[i] = ring.load_at(read_pos + i); after
\* the last one the read cursor advances and the call returns
ReturnLoad(self) ==
    LET l == loc[self]
        c == l.phys_idx + 1
        sample == load_at(bundles[l.ch_ring].rings[c], read_pos[self] + l.i)
        slices == [l.slices EXCEPT ![c][l.i + 1] = sample]
        nxt == NextIndex(l)
    IN  /\ pc[self] = "load"
        /\ IF nxt.done
           THEN /\ ProcessReturn(self, "read", slices, l)
                /\ read_pos' = [read_pos EXCEPT ![self] = @ + l.frame_count]
                /\ lag' = [lag EXCEPT ![self] = l.write_pos - read_pos[self]]
           ELSE /\ loc' = [loc EXCEPT ![self].slices = slices,
                                      ![self].phys_idx = nxt.phys_idx,
                                      ![self].i = nxt.i]
                /\ UNCHANGED <<pc, call, read_pos, lag>>
        /\ UNCHANGED <<GLOBAL_CHANNEL_RINGS, maps, bundles, read_initialized,
                       last_channel, last_num_channels, sent, reserved, block_size>>

\* the frames of the Send calls that are under way and have not moved the
\* cursor yet
RECURSIVE FramesUnderWay(_)
FramesUnderWay(ts) ==
    IF ts = {} THEN 0
    ELSE LET t == CHOOSE x \in ts : TRUE
         IN  (IF /\ pc[t] \in {"global_init", "lock", "locked", "fetch_add"}
                 /\ loc[t].mode = "Send" /\ loc[t].num_physical # 0
              THEN loc[t].frame_count ELSE 0) + FramesUnderWay(ts \ {t})

FitsSteps(mode, num_physical, frame_count) ==
    mode = "Send" /\ num_physical # 0
        => TotalWritten(DOMAIN bundles) + FramesUnderWay(Inst) + frame_count
              <= MaxStepFrames

\* Two audio threads, one routing key: the threads of instances 1 and 2 run
\* process() on mono blocks or blocks without channels, interleaved access
\* by access.
NextSteps ==
    \/ \E self \in Threads, num_physical \in {0, 1}, frame_count \in BlockSizes :
          \E mode \in ModeValues(self) :
             /\ FitsSteps(mode, num_physical, frame_count)
             /\ ProcessEnter(self, MAX_CHANNELS, 2, mode, "PassThrough",
                             num_physical, frame_count)
    \/ \E self \in Threads : GlobalInit(self)
    \/ \E self \in Threads : RegistryLock(self)
    \/ \E self \in Threads : RegistryResolve(self)
    \/ \E self \in Threads : SendReserve(self)
    \/ \E self \in Threads : SendStore(self)
    \/ \E self \in Threads : ReturnObserve(self)
    \/ \E self \in Threads : ReturnLoad(self)
    \/ \E self \in Threads : Initialize(self)
    \/ \E self \in Threads : Reset(self)

SpecSteps == Init /\ [][NextSteps]_vars

\* Two instances on one routing key, whole calls as steps: instance 1 is a
\* Send or a Return from call to call, instance 2 is a Send, and the host
\* passes stereo blocks or blocks without channels and calls the hooks of
\* both.
NextPair ==
    \/ \E self \in Threads, num_physical \in {0, 2}, frame_count \in BlockSizes :
          \E mode \in ModeValues(self) :
          \E amount \in AmountOf(mode), output_mode \in OutputOf(mode) :
             /\ Fits(mode, MAX_CHANNELS, num_physical, frame_count, MaxWritePos)
             /\ Process(self, MAX_CHANNELS, amount, mode, output_mode,
                        num_physical, frame_count)
    \/ \E self \in Threads : Initialize(self)
    \/ \E self \in Threads : Reset(self)

SpecPair == Init /\ [][NextPair]_vars

\* Two instances and several routing keys, whole calls as steps: instance 1
\* is a Send or a Return, instance 2 a Send, each call on the first or the
\* last channel and on a mono or a stereo block.
NextKeys ==
    \E self \in Threads, channel \in {0, MAX_CHANNELS},
       num_physical \in {1, 2}, frame_count \in BlockSizes :
       \E mode \in ModeValues(self) :
          /\ FitsRoute(mode, num_physical, frame_count)
          /\ Process(self, channel, 2, mode, "PassThrough", num_physical,
                     frame_count)

SpecKeys == Init /\ [][NextKeys]_vars

\* A Return and a Send that keep being called: the thread of instance 1
\* calls process() as a Return with the block size the host has fixed, the
\* thread of instance 2 as a Send with any block size that keeps the cursor
\* of the bundle it will find within the bound; both on the last channel and
\* on mono blocks, no hook is called, and the threads are interleaved access
\* by access.
ReturnCall == ProcessEnter(1, MAX_CHANNELS, 2, "Return", "PassThrough", 1, block_size)

SendCall ==
    \E frame_count \in FrameCounts :
        /\ Fits("Send", MAX_CHANNELS, 1, frame_count, MaxStepFrames)
        /\ ProcessEnter(2, MAX_CHANNELS, 2, "Send", "PassThrough", 1, frame_count)

\* the steps of a call under way that nothing can hold up
Runs(self) ==
    \/ GlobalInit(self)
    \/ RegistryResolve(self)
    \/ SendReserve(self)
    \/ SendStore(self)
    \/ ReturnObserve(self)
    \/ ReturnLoad(self)

NextLive ==
    \/ ReturnCall
    \/ SendCall
    \/ \E self \in Threads : Runs(self)
    \/ \E self \in Threads : RegistryLock(self)

\* The host keeps calling both instances and the scheduler keeps running
\* both threads; the mutex is handed to a thread that keeps asking for it
\* (parking_lot unlocks fairly in the end).
Fairness ==
    /\ WF_vars(ReturnCall)
    /\ WF_vars(SendCall)
    /\ \A self \in Threads : WF_vars(Runs(self))
    /\ \A self \in Threads : SF_vars(RegistryLock(self))

SpecLive == InitFixed /\ [][NextLive]_vars /\ Fairness

\* ------------------------------------------------------------------ claims
ReturnPaths == {"lead_in", "underrun", "read"}

\* the block size of the recorded call
CallFrames == IF call.input = <<>> THEN 0 ELSE Len(call.input[1])

\* the read cursor the recorded loading call started from, and the cursor
\* value it observed
CallReadFrom == read_pos[call.inst] - CallFrames
CallCursor == bundles[call.bundle].write_pos

\* C1: every block a Return loads while the write cursor is less than the
\* ring capacity ahead of its read cursor holds, for each channel c and
\* offset i, the value stored for frame r + i: the Send's input sample times
\* the amount of the Send call that wrote it.
C1_ReturnReproducesSent ==
    call.path = "read" /\ CallCursor - CallReadFrom < RING_CAP_POW2 =>
        \A c \in DOMAIN call.output : \A i \in 0..(CallFrames - 1) :
            call.output[c][i + 1] = sent[call.bundle][CallReadFrom + i + 1][c]

\* a Return has loaded a block that holds a halved sample
C1_Witness ==
    /\ call.path = "read"
    /\ CallCursor - CallReadFrom < RING_CAP_POW2
    /\ \E c \in DOMAIN call.output : \E i \in 1..CallFrames :
          /\ call.output[c][i] % 2 = 1
          /\ call.output[c][i] = sent[call.bundle][CallReadFrom + i][c]

\* C6: a Return call on an uninitialized instance that observes a write
\* cursor below the desired delay emits an all-zero block, leaves the
\* instance uninitialized and leaves its read cursor as it was.
C6_LeadInSilence ==
    [][\A self \in Inst :
          (/\ call'.inst = self
           /\ call'.path \in ReturnPaths
           /\ ~read_initialized[self]
           /\ bundles'[call'.bundle].write_pos < DESIRED_DELAY_SAMPLES)
          => /\ \A c \in DOMAIN call'.output : \A i \in DOMAIN call'.output[c] :
                   call'.output[c][i] = 0
             /\ DOMAIN call'.output = DOMAIN call'.input
             /\ ~read_initialized'[self]
             /\ read_pos'[self] = read_pos[self]]_vars

\* an uninitialized Return has returned silence below the desired delay
C6_Witness ==
    /\ call.path = "lead_in"
    /\ call.output # <<>>
    /\ ~read_initialized[call.inst]
    /\ bundles[call.bundle].write_pos < DESIRED_DELAY_SAMPLES

\* C9: a Send call in Redirect mode leaves an all-zero block, has stored
\* input times amount at frames base .. base + F - 1 of every channel, and
\* has advanced the write cursor by F.
C9_RedirectSilencesAndStores ==
    [][(call'.path = "send" /\ call'.output_mode = "Redirect") =>
          LET b == call'.bundle
              base == IF b \in DOMAIN bundles THEN bundles[b].write_pos ELSE 0
              F == Len(call'.input[1])
          IN  /\ DOMAIN call'.output = DOMAIN call'.input
              /\ \A c \in DOMAIN call'.output : \A i \in DOMAIN call'.output[c] :
                    call'.output[c][i] = 0
              /\ bundles'[b].write_pos = base + F
              /\ \A c \in DOMAIN call'.input : \A i \in 0..(F - 1) :
                    load_at(bundles'[b].rings[c], base + i)
                        = FMul(call'.input[c][i + 1], call'.amount)]_vars

\* a Redirect Send of a halved block has returned
C9_Witness ==
    /\ call.path = "send"
    /\ call.output_mode = "Redirect"
    /\ call.amount = 1
    /\ CallFrames = MaxFrameCount
    /\ bundles[call.bundle].write_pos > CallFrames

\* C10: a Send call in PassThrough mode leaves its block equal to its input,
\* for every amount.
C10_PassThroughUnchanged ==
    call.path = "send" /\ call.output_mode = "PassThrough" =>
        call.output = call.input

\* a PassThrough Send at half level has returned
C10_Witness ==
    /\ call.path = "send"
    /\ call.output_mode = "PassThrough"
    /\ call.amount = 1
    /\ call.input # <<>>

\* the routing key instance self has cached, and the bundle the shared map
\* holds for it (<<>> when there is none)
CachedKey(self) == <<last_channel[self], last_num_channels[self]>>

BundleOf(key) ==
    IF GLOBAL_CHANNEL_RINGS # 0 /\ key \in DOMAIN maps[GLOBAL_CHANNEL_RINGS].tbl
    THEN maps[GLOBAL_CHANNEL_RINGS].tbl[key]
    ELSE <<>>

\* C3: resolving a key again, from any instance, yields the bundle the key
\* was first given: no entry of a map is replaced or removed, no bundle is
\* dropped or starts over, the frames written so far that the ring still
\* has room for can be loaded from it, a call works on the bundle its key
\* is mapped to, and a Send reserves from the cursor the earlier calls left.
C3_ResolveIdempotent ==
    [][/\ \A m \in DOMAIN maps : \A key \in DOMAIN maps[m].tbl :
             /\ m \in DOMAIN maps'
             /\ key \in DOMAIN maps'[m].tbl
             /\ maps'[m].tbl[key] = maps[m].tbl[key]
       /\ \A b \in DOMAIN bundles :
             /\ b \in DOMAIN bundles'
             /\ bundles'[b].write_pos >= bundles[b].write_pos
             /\ \A k \in 0..(bundles[b].write_pos - 1) :
                   k + RING_CAP_POW2 >= bundles'[b].write_pos =>
                      \A c \in DOMAIN bundles'[b].rings :
                         load_at(bundles'[b].rings[c], k) = sent[b][k + 1][c]
       /\ call'.path \in ReturnPaths \cup {"send"} =>
             /\ call'.bundle = maps'[GLOBAL_CHANNEL_RINGS'].tbl[
                                   <<last_channel'[call'.inst],
                                     last_num_channels'[call'.inst]>>]
             /\ call'.path = "send" /\ call'.bundle \in DOMAIN bundles =>
                   reserved'[call'.bundle][Len(reserved'[call'.bundle])][1]
                       = bundles[call'.bundle].write_pos]_vars

\* instance 2 has sent into the bundle that instance 1 is tracking and that
\* earlier calls wrote to
C3_Witness ==
    /\ call.path = "send"
    /\ call.inst = 2
    /\ Len(reserved[call.bundle]) >= 2
    /\ read_initialized[1]
    /\ BundleOf(CachedKey(1)) = call.bundle
    /\ read_pos[1] > 0

\* C8 as claimed: with one block size for every call, the distance between
\* write cursor and read cursor at the start of a call that loads a block
\* is the same as at the start of the instance's previous loading call,
\* for as long as the instance stays tracking.
C8_FixedDistance ==
    [][\A self \in Inst :
          (call'.inst = self /\ call'.path = "read" /\ lag[self] # 0)
          => lag'[self] = lag[self]]_vars

\* C8 as amended: the call that initializes tracking starts exactly
\* DESIRED_DELAY_SAMPLES behind the cursor; afterwards every Send call on the
\* key adds its F frames to the distance between write cursor and read
\* cursor and every loading Return call takes its F frames off it, and no
\* other call changes it.
C8_DistanceLaw ==
    [][\A self \in Inst :
          LET b == BundleOf(CachedKey(self))
              F == IF call'.input = <<>> THEN 0 ELSE Len(call'.input[1])
              sends == IF call'.path = "send" /\ call'.bundle = b THEN F ELSE 0
              loads == IF call'.path = "read" /\ call'.inst = self THEN F ELSE 0
          IN  /\ (/\ read_initialized[self] /\ read_initialized'[self]
                  /\ CachedKey(self)' = CachedKey(self)
                  /\ b \in DOMAIN bundles)
                 => bundles'[b].write_pos - read_pos'[self]
                       = bundles[b].write_pos - read_pos[self] + sends - loads
              /\ (/\ call'.inst = self /\ call'.path = "read"
                  /\ (~read_initialized[self] \/ CachedKey(self)' # CachedKey(self)))
                 => bundles'[call'.bundle].write_pos - (read_pos'[self] - F)
                       = DESIRED_DELAY_SAMPLES]_vars

\* with one block size, a tracking Return has loaded a block from further
\* behind the cursor than the desired delay
C8_Witness ==
    /\ block_size # 0
    /\ call.path = "read"
    /\ lag[call.inst] = DESIRED_DELAY_SAMPLES + block_size

\* the read cursor a Return call worked from, seen from the state it left
ReadFrom(self) ==
    read_pos[self] - (IF call.path = "read" THEN CallFrames ELSE 0)

\* C7 as claimed: a Return call that is passed a clamped channel or a
\* channel count other than the cached ones either returns silence and
\* leaves the instance uninitialized, or works from the read cursor
\* w - DESIRED_DELAY_SAMPLES of the bundle it resolved.
C7_ReconfigureDiscards ==
    [][\A self \in Inst :
          (/\ call'.inst = self
           /\ call'.mode = "Return"
           /\ \/ call'.path = "noop" /\ last_num_channels[self] # 0
              \/ call'.path \in ReturnPaths /\ call'.bundle[2] # CachedKey(self))
          => \/ ~read_initialized'[self]
             \/ /\ call'.bundle \in DOMAIN bundles'
                /\ ReadFrom(self)' = bundles'[call'.bundle].write_pos
                                        - DESIRED_DELAY_SAMPLES]_vars

\* C7 as amended: the same for a call whose block has at least one channel,
\* and every block a Return loads comes from the bundle of the key the call
\* was passed, from a read cursor that is not ahead of that bundle's cursor.
C7_ReconfigureDiscardsWithChannels ==
    [][\A self \in Inst :
          (call'.inst = self /\ call'.path \in ReturnPaths) =>
             LET b == call'.bundle
                 w == bundles'[b].write_pos
                 r == ReadFrom(self)'
                 F == Len(call'.input[1])
                 zeros == \A c \in DOMAIN call'.output :
                             \A i \in DOMAIN call'.output[c] : call'.output[c][i] = 0
             IN  /\ b = BundleOf(CachedKey(self))'
                 /\ b[2] # CachedKey(self) =>
                       \/ call'.path = "lead_in" /\ ~read_initialized'[self] /\ zeros
                       \/ /\ read_initialized'[self]
                          /\ r = w - DESIRED_DELAY_SAMPLES
                          /\ call'.path = "underrun" => zeros
                 /\ call'.path = "read" =>
                       /\ r + F <= w
                       /\ w - r < RING_CAP_POW2 =>
                             \A c \in DOMAIN call'.output : \A i \in 0..(F - 1) :
                                call'.output[c][i + 1] = sent[b][r + i + 1][c]]_vars

\* a Return that was tracking one bundle has been moved to another key and
\* has loaded a block from the bundle of that key
C7_Witness ==
    /\ call.path = "read"
    /\ call.changed
    /\ call.was_init
    /\ \E b \in DOMAIN bundles :
          /\ b # call.bundle
          /\ bundles[b].write_pos >= DESIRED_DELAY_SAMPLES

\* the calls that reserved frame k of bundle b
ReservedBy(b, k) ==
    {j \in DOMAIN reserved[b] :
        reserved[b][j][1] <= k /\ k < reserved[b][j][1] + reserved[b][j][2]}

\* C2: for every bundle, under any interleaving of the Send calls of the
\* writer threads, the frame ranges [base, base + F) the calls reserved are
\* pairwise disjoint and leave no gap: every range lies in [0, w) and every
\* frame of [0, w) is in exactly one range, w being the write cursor.
C2_ReservationsPartitionCursor ==
    \A b \in DOMAIN bundles :
        /\ \A j \in DOMAIN reserved[b] :
               reserved[b][j][1] + reserved[b][j][2] <= bundles[b].write_pos
        /\ \A k \in 0..(bundles[b].write_pos - 1) : Cardinality(ReservedBy(b, k)) = 1

\* two writer threads hold reservations in one bundle at the same time, the
\* instance that reserved last holding the lower range
C2_Witness ==
    /\ pc[1] = "store" /\ pc[2] = "store"
    /\ loc[1].ch_ring = loc[2].ch_ring
    /\ loc[2].base_frame + loc[2].frame_count = loc[1].base_frame
    /\ loc[1].base_frame + loc[1].frame_count = bundles[loc[1].ch_ring].write_pos

\* the routing key a thread resolves in the call under way
KeyOf(self) == <<loc[self].channel_idx, loc[self].num_physical>>

\* C4: with the process() calls of the instances running concurrently, the
\* first calls included, all instances that resolved the same routing key
\* hold the same bundle, and no key has had two bundles constructed for it.
C4_OneBundlePerKey ==
    /\ \A t1 \in Inst, t2 \in Inst :
           /\ loc[t1].ch_ring # <<>> /\ loc[t2].ch_ring # <<>>
           /\ KeyOf(t1) = KeyOf(t2)
           => loc[t1].ch_ring = loc[t2].ch_ring
    /\ \A b1 \in DOMAIN bundles, b2 \in DOMAIN bundles :
           b1[2] = b2[2] => b1 = b2

\* thread self performs a load_at in this step
LoadsCell(self) ==
    pc[self] = "load" /\ (pc'[self] # "load" \/ loc'[self] # loc[self])

\* the sample of frame k, channel c of bundle b has been stored
Stored(b, c, k) == k + 1 \in DOMAIN sent[b] /\ sent[b][k + 1][c] # Pending

\* the cell of frame k has been stored to again for a later frame
Overwritten(b, c, k) ==
    \E n \in 1..Len(sent[b]) : Stored(b, c, k + n * RING_CAP_POW2)

\* C5: with every fetch_add, store, cursor load and cell load a step of its
\* own, each cell a Return loads, for frame k, holds what the Send that
\* reserved k stored for k: the store has happened, and no store for frame
\* k + C (or a later frame of the same cell) has.
C5_LoadsOnlySettledFrames ==
    [][\A self \in Inst :
          LoadsCell(self) =>
              LET b == loc[self].ch_ring
                  c == loc[self].phys_idx + 1
                  k == read_pos[self] + loc[self].i
              IN  Stored(b, c, k) /\ ~Overwritten(b, c, k)]_vars

\* the Return call recorded in the next state started in the tracking state
TrackingBefore == call'.was_init /\ ~call'.changed

\* C11: a Return call that finds available = max(0, w - r) < F emits a full
\* block of zeros and is in the tracking state afterwards with the read
\* cursor it tested against: the cursor it held before the call when it was
\* tracking already, w - D when the call itself started tracking.
C11_UnderrunKeepsCursor ==
    [][call'.path = "underrun" =>
          LET self == call'.inst
              w == bundles'[call'.bundle].write_pos
          IN  /\ call'.output = Silence(call'.input)
              /\ read_initialized'[self]
              /\ read_pos'[self] = IF TrackingBefore THEN read_pos[self]
                                   ELSE w - DESIRED_DELAY_SAMPLES
              /\ Available(w, read_pos'[self]) < Len(call'.input[1])]_vars

\* a tracking Return has met an underrun with part of a block available
C11_Witness ==
    /\ call.path = "underrun" /\ call.was_init /\ ~call.changed
    /\ read_initialized[call.inst]
    /\ CallCursor - read_pos[call.inst] > 0

\* C12: initialize() and reset() leave the instance uninitialized, whatever
\* its state was; and a Return call of an uninitialized instance does not
\* use the read cursor the instance holds: with w < D it emits silence and
\* stays uninitialized, else it starts from r = w - D, w being the write
\* cursor it observes, emits what the ring holds from there when a full
\* block is available and silence when not.
C12_HooksForceRederive ==
    [][/\ call'.path \in {"initialize", "reset"} => ~read_initialized'[call'.inst]
       /\ /\ call'.path \in ReturnPaths
          /\ ~read_initialized[call'.inst]
          => LET self == call'.inst
                 w == bundles'[call'.bundle].write_pos
                 r == w - DESIRED_DELAY_SAMPLES
                 F == Len(call'.input[1])
             IN  IF w < DESIRED_DELAY_SAMPLES
                 THEN /\ call'.path = "lead_in"
                      /\ call'.output = Silence(call'.input)
                      /\ ~read_initialized'[self]
                 ELSE IF F <= w - r
                 THEN /\ call'.path = "read"
                      /\ call'.output = LoadBlock(bundles'[call'.bundle].rings,
                                                  call'.input, r, F)
                      /\ read_pos'[self] = r + F
                 ELSE /\ call'.path = "underrun"
                      /\ call'.output = Silence(call'.input)
                      /\ read_pos'[self] = r]_vars

\* a hook has been called on an instance that was tracking and the cursor
\* it leaves behind is none the next Return could start from
C12_Witness ==
    /\ call.path \in {"initialize", "reset"}
    /\ ~read_initialized[call.inst]
    /\ \E b \in DOMAIN bundles :
          /\ bundles[b].write_pos >= DESIRED_DELAY_SAMPLES
          /\ read_pos[call.inst] # bundles[b].write_pos - DESIRED_DELAY_SAMPLES
          /\ read_pos[call.inst] > 0

\* C17: the Return call that goes from uninitialized to tracking (it
\* observes w >= D) applies the tracking rule in the same call with
\* r = w - D: with F <= D it emits the frames w - D .. w - D + F - 1 as they
\* were sent and ends with r = w - D + F; with F > D it emits silence and
\* ends tracking with r = w - D.
C17_TransitionCallTracks ==
    [][/\ call'.path \in ReturnPaths
       /\ ~TrackingBefore
       /\ bundles'[call'.bundle].write_pos >= DESIRED_DELAY_SAMPLES
       => LET self == call'.inst
              b == call'.bundle
              w == bundles'[b].write_pos
              F == Len(call'.input[1])
          IN  /\ read_initialized'[self]
              /\ IF F <= DESIRED_DELAY_SAMPLES
                 THEN /\ call'.path = "read"
                      /\ \A c \in DOMAIN call'.output : \A i \in 0..(F - 1) :
                            call'.output[c][i + 1] =
                                sent'[b][w - DESIRED_DELAY_SAMPLES + i + 1][c]
                      /\ read_pos'[self] = w - DESIRED_DELAY_SAMPLES + F
                 ELSE /\ call'.path = "underrun"
                      /\ call'.output = Silence(call'.input)
                      /\ read_pos'[self] = w - DESIRED_DELAY_SAMPLES]_vars

\* a transition call with F <= D has emitted sent frames from past the
\* start of the ring, after a transition call with F > D was possible
C17_Witness ==
    /\ call.path = "read" /\ ~call.was_init
    /\ CallFrames <= DESIRED_DELAY_SAMPLES
    /\ CallFrames < MaxFrameCount
    /\ CallReadFrom > 0
    /\ \E c \in DOMAIN call.output : call.output[c][1] # 0

\* C14: a process call on a block without physical channels, in either
\* mode, returns the block as it was, creates no registry entry, changes no
\* bundle (cursor and cells) and leaves the read cursor, the initialized
\* flag and the cached key of the instance as they were.
C14_NoChannelsNoOp ==
    [][/\ call'.path \in {"noop", "send"} \cup ReturnPaths
       /\ call'.input = <<>>
       => /\ call'.path = "noop"
          /\ call'.output = call'.input
          /\ bundles' = bundles
          /\ \A m \in DOMAIN maps' :
                maps'[m].tbl = IF m \in DOMAIN maps THEN maps[m].tbl ELSE EmptyTbl
          /\ read_pos' = read_pos
          /\ read_initialized' = read_initialized
          /\ last_channel' = last_channel
          /\ last_num_channels' = last_num_channels]_vars

\* a tracking Return has been passed a block without channels, as a Return
\* and with a bundle in the registry it could have read from
C14_Witness ==
    /\ call.path = "noop" /\ call.mode = "Return"
    /\ read_initialized[call.inst]
    /\ last_num_channels[call.inst] # 0
    /\ BundleOf(CachedKey(call.inst)) # <<>>

\* the bundle the registry holds for the key instance self resolved last
OwnBundle(self) == BundleOf(CachedKey(self))

\* the instances that have resolved a key
Resolved == {t \in Inst : last_num_channels[t] # 0}

Held(self) == {m \in DOMAIN maps : maps[m].owner = self}

\* C15: the registry mutex is held for the lookup-or-insert only: a thread
\* that is about to update or load a write cursor, or is storing samples
\* into or loading samples from a ring, holds no registry mutex, and neither
\* does a thread whose call has returned.
C15_LockOnlyAroundLookup ==
    \A self \in Inst :
        /\ pc[self] \in {"fetch_add", "store", "load_write_pos", "load", "idle"}
               => Held(self) = {}
        /\ Held(self) # {} => pc[self] = "locked" /\ Held(self) = {loc[self].rings_store}

\* one thread is in its sample loop while the other holds the mutex of the
\* map both resolved their key in
C15_Witness ==
    \E t1 \in Inst, t2 \in Inst :
        /\ pc[t1] \in {"store", "load"}
        /\ pc[t2] = "locked"
        /\ Held(t2) = {loc[t1].rings_store}

\* thread self takes the step
Moves(self) == pc'[self] # pc[self] \/ loc'[self] # loc[self]

\* C16: the write cursor of a bundle is 0 when the bundle is created and
\* never decreases; it changes only in the fetch_add step of a Send call on
\* the bundle, by the frame count F of that call, and every Send call takes
\* that step once: it stores only after it, and returns only from storing.
C16_CursorMovesOncePerSend ==
    [][/\ \A b \in DOMAIN bundles' :
             IF b \notin DOMAIN bundles THEN bundles'[b].write_pos = 0
             ELSE /\ bundles'[b].write_pos >= bundles[b].write_pos
                  /\ bundles'[b].write_pos # bundles[b].write_pos =>
                        \E self \in Inst :
                           /\ pc[self] = "fetch_add" /\ Moves(self)
                           /\ loc[self].ch_ring = b
       /\ \A self \in Inst :
             /\ pc[self] = "fetch_add" /\ Moves(self) =>
                   /\ loc[self].mode = "Send" /\ pc'[self] = "store"
                   /\ bundles'[loc[self].ch_ring].write_pos =
                         bundles[loc[self].ch_ring].write_pos + loc[self].frame_count
                   /\ loc[self].frame_count > 0
             /\ pc'[self] = "store" => pc[self] \in {"fetch_add", "store"}
             /\ pc'[self] = "fetch_add" => pc[self] \in {"locked", "fetch_add"}
             /\ /\ pc[self] # "idle" /\ pc'[self] = "idle"
                /\ loc[self].mode = "Send" /\ ~NoChannels(loc[self].num_physical)
                => pc[self] = "store"]_vars

\* two Send calls have moved the cursor of one bundle, one of them still
\* storing, while the other thread is under way again
C16_Witness ==
    \E b \in DOMAIN bundles :
        /\ Len(reserved[b]) >= 2
        /\ bundles[b].write_pos = reserved[b][1][2] + reserved[b][2][2]
        /\ \E t1 \in Inst, t2 \in Inst :
              /\ t1 # t2
              /\ pc[t1] = "store" /\ loc[t1].ch_ring = b
              /\ pc[t2] \notin {"idle", "store"}

\* C19: a Return call changes no shared sample state: every bundle that
\* existed keeps its write cursor and its cells and every registry entry its
\* bundle; at most the call inserts, for its own key, a bundle with cursor 0
\* and all cells zero; and the read cursor, the initialized flag and the
\* cached key of every other instance stay as they were.
C19_ReturnLeavesSharedState ==
    [][\A self \in Inst :
          call'.inst = self /\ call'.path \in ReturnPaths =>
              /\ \A b \in DOMAIN bundles : bundles'[b] = bundles[b]
              /\ \A b \in DOMAIN bundles' \ DOMAIN bundles :
                    /\ b = call'.bundle
                    /\ bundles'[b] = ChannelRing_new(last_num_channels'[self])
                    /\ bundles'[b].write_pos = 0
                    /\ \A c \in DOMAIN bundles'[b].rings :
                          \A i \in DOMAIN bundles'[b].rings[c] :
                             bundles'[b].rings[c][i] = 0
              /\ \A m \in DOMAIN maps : \A k \in DOMAIN maps[m].tbl :
                    k \in DOMAIN maps'[m].tbl /\ maps'[m].tbl[k] = maps[m].tbl[k]
              /\ \A t \in Inst \ {self} :
                    /\ read_pos'[t] = read_pos[t]
                    /\ read_initialized'[t] = read_initialized[t]
                    /\ last_channel'[t] = last_channel[t]
                    /\ last_num_channels'[t] = last_num_channels[t]]_vars

\* a Return call has resolved a key whose bundle is empty while another
\* bundle holds frames and the other instance has a cached key
C19_Witness ==
    /\ call.path = "lead_in"
    /\ bundles[call.bundle].write_pos = 0
    /\ \E b \in DOMAIN bundles : bundles[b].write_pos > 0
    /\ \E t \in Resolved : t # call.inst
    /\ read_pos[call.inst] > 0

Loaded == call.inst = 1 /\ call.path = "read"

\* C20: with a Send that keeps calling with F > 0 and a Return that keeps
\* being called on the same key with one block size and no reset, under
\* fair scheduling: the Return reaches the tracking state; a tracking Return
\* whose next block ends within the bound of the cursor gets to emit a block
\* loaded from the ring; and a call that waits for the registry mutex gets
\* it.
C20_ReturnEventuallyLoads ==
    /\ <>read_initialized[1]
    /\ (read_initialized[1] /\ read_pos[1] + block_size <= MaxStepFrames) ~> Loaded
    /\ \A self \in Threads : (pc[self] = "lock") ~> (pc[self] = "locked")

\* the Return has emitted a loaded block of the largest size while the Send
\* is in a later call, after having started tracking behind an underrun
C20_Witness ==
    /\ Loaded
    /\ CallFrames > DESIRED_DELAY_SAMPLES
    /\ pc[2] = "lock"

====
